---- MODULE Spec2Model ----
(***************************************************************************)
(* Model of jakeogh/pip-index: update_pip_index.py (the Index Writer) and  *)
(* regenerate_pip_index.py (the regeneration driver).                      *)
(*                                                                         *)
(* Python strings are modelled as sequences of one-character strings, so   *)
(* that rendering (f-string concatenation), the regular expression of      *)
(* load_existing_versions, str.split, str.replace and the code-point order *)
(* used by list.sort act on characters, as they do in the code.            *)
(*                                                                         *)
(* A package page is the sequence of its anchor lines; each anchor keeps   *)
(* the characters of its href attribute and of its link text.  The fixed   *)
(* head and tail of the page hold no href and are left out.                *)
(***************************************************************************)
EXTENDS Integers, Sequences, FiniteSets, TLC

VARIABLES
    \* the index repository (update_pip_index.py)
    dirs,       \* names of the directories present under simple/
    pages,      \* package name -> simple/{package}/index.html (NoFile if absent)
    root,       \* simple/index.html (NoFile if absent)
    calls,      \* number of update_index calls made so far
    failures,   \* number of them that ended in an OSError
    last,       \* arguments and outcome of the latest update_index call
    \* one run of regenerate_index (regenerate_pip_index.py)
    world,      \* the entries of MYAPPS_DIR
    script,     \* whether UPDATE_SCRIPT exists
    pending,    \* entries iterdir() has not yielded yet
    repos,      \* the list find_repos_with_pip_index builds
    queue,      \* the part of sorted(repos) the loop has still to process
    github,     \* (github_user, github_repo) of the repository being processed
    invoked,    \* the Index Writer invocations made, in order, with outcome
    warnings,   \* directory names reported as skipped on stderr
    pc,         \* position of the run
    disturbed,  \* some external call timed out or failed during the run
    \* render / parse round trip of one package page
    rtPhase, rtPackage, rtRecords, rtPage, rtLoaded

writerVars == <<dirs, pages, root, calls, failures, last>>
regenVars == <<world, script, pending, repos, queue, github, invoked, warnings,
               pc, disturbed>>
rtVars == <<rtPhase, rtPackage, rtRecords, rtPage, rtLoaded>>
vars == <<writerVars, regenVars, rtVars>>

----------------------------------------------------------------------------
(* Bounds *)

MaxCalls == 3
MaxFailures == 1
MaxRecords == 2

----------------------------------------------------------------------------
(* Characters and string helpers (Python str semantics) *)

\* The characters in use, in ascending Unicode code-point order.
CodeOrder ==
    << "#", "-", ".", "/", "0", "1", "2", "3", "4", "5", "6", "7", "8", "9",
       ":", "=", "a", "b", "c", "d", "e", "f", "g", "h", "i", "j", "k", "l",
       "m", "n", "o", "p", "q", "r", "s", "t", "u", "v", "w", "x", "y", "z" >>

Ord(c) == CHOOSE i \in 1..Len(CodeOrder) : CodeOrder[i] = c

Drop(s, n) == SubSeq(s, n + 1, Len(s))

StartsWith(s, p) == Len(s) >= Len(p) /\ SubSeq(s, 1, Len(p)) = p

EndsWith(s, p) == Len(s) >= Len(p) /\ SubSeq(s, Len(s) - Len(p) + 1, Len(s)) = p

\* Index of the first occurrence of character c in s, 0 if there is none.
RECURSIVE IndexFrom(_, _, _)
IndexFrom(s, c, i) ==
    IF i > Len(s) THEN 0
    ELSE IF s[i] = c THEN i
    ELSE IndexFrom(s, c, i + 1)

IndexOf(s, c) == IndexFrom(s, c, 1)

\* a < b for Python str: first differing code point, else the shorter one.
RECURSIVE StrLess(_, _)
StrLess(a, b) ==
    IF b = <<>> THEN FALSE
    ELSE IF a = <<>> THEN TRUE
    ELSE IF Head(a) = Head(b) THEN StrLess(Tail(a), Tail(b))
    ELSE Ord(Head(a)) < Ord(Head(b))

StrLeq(a, b) == a = b \/ StrLess(a, b)

\* s.replace(old, "")
RECURSIVE RemoveAll(_, _)
RemoveAll(s, old) ==
    IF s = <<>> THEN <<>>
    ELSE IF StartsWith(s, old) THEN RemoveAll(Drop(s, Len(old)), old)
    ELSE <<Head(s)>> \o RemoveAll(Tail(s), old)

----------------------------------------------------------------------------
(* Literals of the page format *)

HTTPS_GITHUB ==
    << "h", "t", "t", "p", "s", ":", "/", "/",
       "g", "i", "t", "h", "u", "b", ".", "c", "o", "m", "/" >>
SLASH == << "/" >>
ARCHIVE == << "/", "a", "r", "c", "h", "i", "v", "e", "/" >>
TAR_GZ == << ".", "t", "a", "r", ".", "g", "z" >>
EGG == << "#", "e", "g", "g", "=" >>
DASH == << "-" >>
GIT_DIR == << ".", "g", "i", "t" >>
INDEX_HTML == << "i", "n", "d", "e", "x", ".", "h", "t", "m", "l" >>

\* A file of the index: absent, or present with its anchor lines.
NoFile == [ exists |-> FALSE, anchors |-> <<>> ]
File(anchors) == [ exists |-> TRUE, anchors |-> anchors ]
IndexError == << "IndexError" >>

----------------------------------------------------------------------------
(* Inputs: package names as pyproject.toml allows them (letters, digits,   *)
(* '-'), versions of the PEP 440 digits-and-dots shape, commit hashes.     *)

Eprint == << "e", "p", "r", "i", "n", "t" >>
MyPkg == << "m", "y", "-", "p", "k", "g" >>
Packages == { Eprint, MyPkg }

V001 == << "0", ".", "0", ".", "1" >>
V002 == << "0", ".", "0", ".", "2" >>
V0010 == << "0", ".", "0", ".", "1", "0" >>
Versions == { V001, V002, V0010 }

Abc123 == << "a", "b", "c", "1", "2", "3" >>
Def456 == << "d", "e", "f", "4", "5", "6" >>
Commits == { Abc123, Def456 }

Jakeogh == << "j", "a", "k", "e", "o", "g", "h" >>
Users == { Jakeogh }

VersionRecord(version, commit_hash, github_user, github_repo) ==
    [ version |-> version, commit_hash |-> commit_hash,
      github_user |-> github_user, github_repo |-> github_repo ]

----------------------------------------------------------------------------
(* create_package_index_html *)

TarballUrl(rec) ==
    HTTPS_GITHUB \o rec.github_user \o SLASH \o rec.github_repo
        \o ARCHIVE \o rec.commit_hash \o TAR_GZ

Anchor(package_name, rec) ==
    [ href |-> TarballUrl(rec) \o EGG \o package_name \o DASH \o rec.version,
      text |-> package_name \o DASH \o rec.version ]

create_package_index_html(package_name, versions_data) ==
    [ i \in 1..Len(versions_data) |-> Anchor(package_name, versions_data[i]) ]

----------------------------------------------------------------------------
(* load_existing_versions *)

NoMatch == [ ok |-> FALSE ]

\* The href part of the pattern:
\*   https://github\.com/([^/]+)/([^/]+)/archive/([^"#]+)\.tar\.gz(?:#egg=[^"]+)?
\* matched against the whole attribute value (the pattern continues with ">).
MatchHref(h) ==
    IF ~StartsWith(h, HTTPS_GITHUB) THEN NoMatch
    ELSE
      LET r1 == Drop(h, Len(HTTPS_GITHUB))
          i  == IndexOf(r1, "/")
      IN IF i <= 1 THEN NoMatch
         ELSE
           LET r2 == Drop(r1, i)
               j  == IndexOf(r2, "/")
           IN IF j <= 1 \/ ~StartsWith(Drop(r2, j - 1), ARCHIVE) THEN NoMatch
              ELSE
                LET r3   == Drop(r2, j - 1 + Len(ARCHIVE))
                    k    == IndexOf(r3, "#")
                    pre  == IF k = 0 THEN r3 ELSE SubSeq(r3, 1, k - 1)
                    post == IF k = 0 THEN <<>> ELSE Drop(r3, k - 1)
                IN IF ~EndsWith(pre, TAR_GZ) \/ Len(pre) = Len(TAR_GZ)
                     THEN NoMatch
                   ELSE IF post /= <<>>
                           /\ ~(StartsWith(post, EGG) /\ Len(post) > Len(EGG))
                     THEN NoMatch
                   ELSE [ ok |-> TRUE,
                          github_user |-> SubSeq(r1, 1, i - 1),
                          github_repo |-> SubSeq(r2, 1, j - 1),
                          commit_hash |-> SubSeq(pre, 1, Len(pre) - Len(TAR_GZ)) ]

\* text.split("-", 1)[1]; IndexError when the text holds no '-'.
SplitDash1(text) ==
    IF IndexOf(text, "-") = 0 THEN IndexError
    ELSE Drop(text, IndexOf(text, "-"))

VersionOfLinkText(link_text) ==
    IF EndsWith(link_text, TAR_GZ)
      THEN SplitDash1(RemoveAll(link_text, TAR_GZ))
    ELSE IF IndexOf(link_text, "-") /= 0
      THEN SplitDash1(link_text)
    ELSE link_text

RECURSIVE MatchAll(_)
MatchAll(anchors) ==
    IF anchors = <<>> THEN <<>>
    ELSE
      LET a == Head(anchors)
          m == MatchHref(a.href)
      IN IF m.ok /\ a.text /= <<>>
           THEN << VersionRecord(VersionOfLinkText(a.text), m.commit_hash,
                                 m.github_user, m.github_repo) >>
                \o MatchAll(Tail(anchors))
         ELSE MatchAll(Tail(anchors))

load_existing_versions(page) ==
    IF ~page.exists THEN <<>> ELSE MatchAll(page.anchors)

----------------------------------------------------------------------------
(* update_index / update_root_index *)

\* list.sort(key=lambda x: x[0]): stable, ascending by version string.
RECURSIVE InsertByVersion(_, _)
InsertByVersion(sorted, rec) ==
    IF sorted = <<>> THEN << rec >>
    ELSE IF StrLess(rec.version, Head(sorted).version)
      THEN << rec >> \o sorted
    ELSE << Head(sorted) >> \o InsertByVersion(Tail(sorted), rec)

\* The records left in the order they were parsed and appended in.
SortByVersion_Unsorted(versions) == versions

RECURSIVE SortByVersion(_)
SortByVersion(versions) ==
    IF versions = <<>> THEN <<>>
    ELSE InsertByVersion(SortByVersion(SubSeq(versions, 1, Len(versions) - 1)),
                         versions[Len(versions)])

\* The record of the incoming version is not removed.
DropVersion_KeepAll(versions, version) == versions

\* versions = [v for v in versions if v[0] != version]
DropVersion(versions, version) ==
    SelectSeq(versions, LAMBDA v : v.version /= version)

\* Lines 135-144: the records written to the package page.
MergedVersions(page, new_version) ==
    SortByVersion(
        Append(DropVersion(load_existing_versions(page), new_version.version),
               new_version))

\* sorted(packages) for a collection of distinct names.
RECURSIVE SortNames(_)
SortNames(names) ==
    IF names = {} THEN <<>>
    ELSE LET m == CHOOSE n \in names : \A o \in names : StrLeq(n, o)
         IN << m >> \o SortNames(names \ {m})

create_root_index_html(packages) ==
    LET s == SortNames(packages)
    IN [ i \in 1..Len(s) |-> [ href |-> s[i] \o SLASH, text |-> s[i] ] ]

\* simple_dir.iterdir(): the directories and the root page file.
SimpleEntries(d, rootFile) ==
    { [ name |-> n, is_dir |-> TRUE ] : n \in d }
        \cup (IF ~rootFile.exists THEN {}
              ELSE { [ name |-> INDEX_HTML, is_dir |-> FALSE ] })

\* The test `item.name != ".git"` left out.
ListedPackages_WithGit(entries) ==
    { item.name : item \in { e \in entries : e.is_dir } }

\* Lines 156-159.
ListedPackages(entries) ==
    { item.name : item \in { e \in entries : e.is_dir /\ e.name /= GIT_DIR } }

update_root_index(d, rootFile) ==
    File(create_root_index_html(ListedPackages(SimpleEntries(d, rootFile))))

\* The index repository's simple/ tree as one value.
Index(d, pg, rt) == [ dirs |-> d, pages |-> pg, root |-> rt ]

EmptyIndex == Index({}, [ p \in Packages |-> NoFile ], NoFile)

\* Lines 135-145: the package page update_index writes.
NewPackagePage(idx, p, v, c, u, r) ==
    File(create_package_index_html(
            p, MergedVersions(idx.pages[p], VersionRecord(v, c, u, r))))

\* update_index running to completion (lines 129-149).
update_index(idx, p, v, c, u, r) ==
    LET d  == idx.dirs \cup { p }
        pg == [ idx.pages EXCEPT ![p] = NewPackagePage(idx, p, v, c, u, r) ]
    IN Index(d, pg, update_root_index(d, idx.root))

\* update_index ending in an OSError raised at `stage`:
\*   "mkdir": line 133 cannot create the directory, nothing is written;
\*   "page":  line 145 cannot open the package page after mkdir succeeded;
\*   "root":  line 162 cannot open the root page after the package page
\*            was written.
FailStages == { "mkdir", "page", "root" }

update_index_fails(idx, p, v, c, u, r, stage) ==
    LET d == idx.dirs \cup { p }
    IN CASE stage = "mkdir" -> idx
         [] stage = "page" -> Index(d, idx.pages, idx.root)
         [] stage = "root" ->
              Index(d,
                    [ idx.pages EXCEPT ![p] = NewPackagePage(idx, p, v, c, u, r) ],
                    idx.root)

CurrentIndex == Index(dirs, pages, root)

SetIndex(idx) ==
    /\ dirs' = idx.dirs
    /\ pages' = idx.pages
    /\ root' = idx.root

Call(p, v, c, u, r, outcome) ==
    [ package |-> p, version |-> v, commit_hash |-> c, github_user |-> u,
      github_repo |-> r, outcome |-> outcome ]

NoCall == Call(<<>>, <<>>, <<>>, <<>>, <<>>, "none")

----------------------------------------------------------------------------
(* regenerate_pip_index.py: the repositories under MYAPPS_DIR *)

\* None, and the empty string: both are false in `if not x`.
None == <<>>

GITHUB_USER == Jakeogh
PIP_INDEX == << "p", "i", "p", "-", "i", "n", "d", "e", "x" >>
GITHUB_COM == << "g", "i", "t", "h", "u", "b", ".", "c", "o", "m" >>
DOT_GIT == << ".", "g", "i", "t" >>

\* One entry of MYAPPS_DIR: what the file system, pyproject.toml and git
\* answer for it.
Item(name, is_dir, marker, package_name, version, commit_hash, remote_url) ==
    [ name |-> name, is_dir |-> is_dir, marker |-> marker,
      package_name |-> package_name, version |-> version,
      commit_hash |-> commit_hash, remote_url |-> remote_url ]

Eprint2 == << "e", "p", "r", "i", "n", "t", "2" >>
Eprint3 == << "e", "p", "r", "i", "n", "t", "3" >>

EprintUrl ==
    << "h", "t", "t", "p", "s", ":", "/", "/" >> \o GITHUB_COM \o SLASH
        \o Jakeogh \o SLASH \o Eprint \o DOT_GIT
MyPkgUrl ==
    << "g", "i", "t", "@" >> \o GITHUB_COM \o << ":" >> \o Jakeogh \o SLASH \o MyPkg
GitlabUrl ==
    << "h", "t", "t", "p", "s", ":", "/", "/", "g", "i", "t", "l", "a", "b",
       ".", "c", "o", "m", "/" >> \o Jakeogh \o SLASH \o Eprint

\* Repositories that pass every check of find_repos_with_pip_index.
IndexedItems ==
    { Item(Eprint,  TRUE, TRUE, Eprint, V001,  Abc123, EprintUrl),
      Item(Eprint2, TRUE, TRUE, Eprint, V001,  Def456, None),
      Item(Eprint3, TRUE, TRUE, Eprint, V0010, Def456, GitlabUrl),
      Item(MyPkg,   TRUE, TRUE, MyPkg,  V002,  Abc123, MyPkgUrl) }

\* Entries that one of the checks turns away.
SkippedItems ==
    { Item(<< "n", "o", "t", "e", "s" >>, FALSE, FALSE, None, None, None, None),
      Item(<< ".", "c", "a", "c", "h", "e" >>, TRUE, TRUE, Eprint, V002, Abc123, None),
      Item(PIP_INDEX, TRUE, TRUE, Eprint, V002, Abc123, None),
      Item(<< "n", "o", "m", "a", "r", "k" >>, TRUE, FALSE, Eprint, V002, Abc123, EprintUrl),
      Item(<< "n", "o", "v", "e", "r" >>, TRUE, TRUE, Eprint, None, Abc123, EprintUrl),
      Item(<< "n", "o", "g", "i", "t" >>, TRUE, TRUE, MyPkg, V001, None, None) }

\* Lines 294-315 for one entry: the check that turns it away, or "found".
ScanResult(item) ==
    IF ~item.is_dir THEN "not a directory"
    ELSE IF Head(item.name) = "." \/ item.name = PIP_INDEX THEN "special"
    ELSE IF ~item.marker THEN "no marker"
    ELSE IF item.package_name = None \/ item.version = None
      THEN "no package name or version"
    ELSE IF item.commit_hash = None THEN "not a git repo"
    ELSE "found"

\* Whether the scan of this entry gets as far as running `git rev-parse`.
ReachesCommitLookup(item) ==
    ScanResult(item) \in { "not a git repo", "found" }

\* The tuple appended at line 317.
Repo(item) ==
    [ repo_path |-> item.name, package_name |-> item.package_name,
      version |-> item.version, commit_hash |-> item.commit_hash,
      remote_url |-> item.remote_url ]

\* sorted(repos, key=lambda x: x[1]): stable, ascending by package name.
RECURSIVE InsertByName(_, _)
InsertByName(sorted, repo) ==
    IF sorted = <<>> THEN << repo >>
    ELSE IF StrLess(repo.package_name, Head(sorted).package_name)
      THEN << repo >> \o sorted
    ELSE << Head(sorted) >> \o InsertByName(Tail(sorted), repo)

RECURSIVE SortByPackageName(_)
SortByPackageName(rs) ==
    IF rs = <<>> THEN <<>>
    ELSE InsertByName(SortByPackageName(SubSeq(rs, 1, Len(rs) - 1)), rs[Len(rs)])

\* The pattern github\.com[:/]([^/]+)/([^/\s]+?)(?:\.git)?$ tried at offset i.
MatchRemoteAt(url, i) ==
    LET s == Drop(url, i - 1)
    IN IF ~StartsWith(s, GITHUB_COM) \/ Len(s) = Len(GITHUB_COM) THEN NoMatch
       ELSE IF s[Len(GITHUB_COM) + 1] \notin { ":", "/" } THEN NoMatch
       ELSE
         LET rest == Drop(s, Len(GITHUB_COM) + 1)
             a    == IndexOf(rest, "/")
             tl   == Drop(rest, a)
         IN IF a <= 1 \/ tl = <<>> THEN NoMatch
            ELSE IF \E k \in 1..Len(tl) : tl[k] \in { "/", " " } THEN NoMatch
            ELSE [ ok |-> TRUE,
                   github_user |-> SubSeq(rest, 1, a - 1),
                   github_repo |->
                       IF EndsWith(tl, DOT_GIT) /\ Len(tl) > Len(DOT_GIT)
                         THEN SubSeq(tl, 1, Len(tl) - Len(DOT_GIT))
                       ELSE tl ]

Fallback(repo) == [ github_user |-> GITHUB_USER, github_repo |-> repo.repo_path ]

\* get_github_info followed by lines 347-353; timed_out is the 5 s timeout of
\* `git remote get-url origin` expiring.
GithubInfo(repo, timed_out) ==
    IF timed_out \/ repo.remote_url = None THEN Fallback(repo)
    ELSE
      LET url  == repo.remote_url
          hits == { i \in 1..Len(url) : MatchRemoteAt(url, i).ok }
      IN IF hits = {} THEN Fallback(repo)
         ELSE LET m == MatchRemoteAt(url, CHOOSE i \in hits : \A j \in hits : i <= j)
              IN IF m.github_user = None \/ m.github_repo = None
                   THEN Fallback(repo)
                 ELSE [ github_user |-> m.github_user,
                        github_repo |-> m.github_repo ]

----------------------------------------------------------------------------
(* Variables a specification does not use stay at these values *)

WriterIdle ==
    /\ dirs = {}
    /\ pages = [ p \in Packages |-> NoFile ]
    /\ root = NoFile
    /\ calls = 0
    /\ failures = 0
    /\ last = NoCall

NoInfo == [ github_user |-> None, github_repo |-> None ]

RegenIdle ==
    /\ world = {}
    /\ script = FALSE
    /\ pending = {}
    /\ repos = <<>>
    /\ queue = <<>>
    /\ github = NoInfo
    /\ invoked = <<>>
    /\ warnings = {}
    /\ pc = "idle"
    /\ disturbed = FALSE

RTIdle ==
    /\ rtPhase = "idle"
    /\ rtPackage = <<>>
    /\ rtRecords = <<>>
    /\ rtPage = NoFile
    /\ rtLoaded = <<>>

----------------------------------------------------------------------------
(* Spec: any sequence of update_index calls on an index repository *)

\* The versions each package is updated with.
VersionsFor(p) == IF p = MyPkg THEN { V001, V002 } ELSE Versions

\* The --github-repo default of main(): the package name.
ReposFor(p) == { p }

WriterInit ==
    /\ dirs \in { {}, { GIT_DIR } }
    /\ pages = [ p \in Packages |-> NoFile ]
    /\ root = NoFile
    /\ calls = 0
    /\ failures = 0
    /\ last = NoCall

UpdateIndex(p, v, c, u, r) ==
    /\ calls < MaxCalls
    /\ SetIndex(update_index(CurrentIndex, p, v, c, u, r))
    /\ calls' = calls + 1
    /\ last' = Call(p, v, c, u, r, "ok")
    /\ UNCHANGED <<failures, regenVars, rtVars>>

UpdateIndexFails(p, v, c, u, r, stage) ==
    /\ calls < MaxCalls
    /\ failures < MaxFailures
    /\ stage = "mkdir" => p \notin dirs
    /\ failures' = failures + 1
    /\ SetIndex(update_index_fails(CurrentIndex, p, v, c, u, r, stage))
    /\ calls' = calls + 1
    /\ last' = Call(p, v, c, u, r, stage)
    /\ UNCHANGED <<regenVars, rtVars>>

Init == WriterInit /\ RegenIdle /\ RTIdle

Next ==
    \E p \in Packages :
        \E v \in VersionsFor(p), c \in Commits, u \in Users, r \in ReposFor(p) :
            \/ UpdateIndex(p, v, c, u, r)
            \/ \E stage \in FailStages : UpdateIndexFails(p, v, c, u, r, stage)

Spec == Init /\ [][Next]_vars

----------------------------------------------------------------------------
(* RegenSpec: one run of regenerate_index on an empty index repository *)

RegenInit ==
    /\ WriterIdle
    /\ RTIdle
    /\ world \in { SkippedItems \cup s : s \in SUBSET IndexedItems }
    /\ script \in BOOLEAN
    /\ pending = world
    /\ repos = <<>>
    /\ queue = <<>>
    /\ github = NoInfo
    /\ invoked = <<>>
    /\ warnings = {}
    /\ pc = "start"
    /\ disturbed = FALSE

\* Lines 325-329.
Start ==
    /\ pc = "start"
    /\ pc' = IF script THEN "scan" ELSE "exit1"
    /\ UNCHANGED <<writerVars, rtVars, world, script, pending, repos, queue,
                   github, invoked, warnings, disturbed>>

\* One iteration of the loop of find_repos_with_pip_index (lines 293-318);
\* iterdir() yields the entries in any order.
ScanItem ==
    /\ pc = "scan"
    /\ \E item \in pending :
          /\ pending' = pending \ { item }
          /\ repos' = IF ScanResult(item) = "found"
                        THEN Append(repos, Repo(item))
                      ELSE repos
          /\ warnings' = IF ScanResult(item) \in { "no package name or version",
                                                  "not a git repo" }
                           THEN warnings \cup { item.name }
                         ELSE warnings
    /\ UNCHANGED <<writerVars, rtVars, world, script, queue, github, invoked,
                   pc, disturbed>>

\* `git rev-parse HEAD` (line 245, no timeout) never returns.
ScanCommitHangs ==
    /\ pc = "scan"
    /\ \E item \in pending : ReachesCommitLookup(item)
    /\ pc' = "hung_commit"
    /\ UNCHANGED <<writerVars, rtVars, world, script, pending, repos, queue,
                   github, invoked, warnings, disturbed>>

\* Lines 330-341: the scan returns; exit when nothing was found, else sort.
ScanDone ==
    /\ pc = "scan"
    /\ pending = {}
    /\ IF repos = <<>>
         THEN pc' = "exit0" /\ queue' = queue
       ELSE pc' = "remote" /\ queue' = SortByPackageName(repos)
    /\ UNCHANGED <<writerVars, rtVars, world, script, pending, repos, github,
                   invoked, warnings, disturbed>>

\* Lines 345-353 with `git remote get-url origin` returning in time.
RemoteLookup ==
    /\ pc = "remote"
    /\ github' = GithubInfo(Head(queue), FALSE)
    /\ pc' = "invoke"
    /\ UNCHANGED <<writerVars, rtVars, world, script, pending, repos, queue,
                   invoked, warnings, disturbed>>

\* `git remote get-url origin` does not return ...
RemoteLookupHangs ==
    /\ pc = "remote"
    /\ pc' = "hung_remote"
    /\ UNCHANGED <<writerVars, rtVars, world, script, pending, repos, queue,
                   github, invoked, warnings, disturbed>>

\* ... and its timeout=5 (line 46) expires: TimeoutExpired, (None, None).
RemoteTimeout ==
    /\ pc = "hung_remote"
    /\ github' = GithubInfo(Head(queue), TRUE)
    /\ pc' = "invoke"
    /\ disturbed' = TRUE
    /\ UNCHANGED <<writerVars, rtVars, world, script, pending, repos, queue,
                   invoked, warnings>>

Invocation(repo, info, outcome) ==
    [ repo_path |-> repo.repo_path, package_name |-> repo.package_name,
      github_user |-> info.github_user, github_repo |-> info.github_repo,
      outcome |-> outcome ]

\* What the loop goes on with after an invocation that returned.
AfterUpdate(q) == Tail(q)

\* The run gives up on the first failed invocation.
AfterFailedUpdate_Abort(q) == <<>>

\* The except clause of lines 375-380: report, go on with the next one.
AfterFailedUpdate(q) == Tail(q)

PcAfter(q) == IF q = <<>> THEN "done" ELSE "remote"

\* Lines 355-374: the Index Writer subprocess exits 0.
InvokeOk ==
    /\ pc = "invoke"
    /\ LET repo == Head(queue)
       IN /\ SetIndex(update_index(CurrentIndex, repo.package_name, repo.version,
                                   repo.commit_hash, github.github_user,
                                   github.github_repo))
          /\ invoked' = Append(invoked, Invocation(repo, github, "ok"))
    /\ queue' = AfterUpdate(queue)
    /\ pc' = PcAfter(queue')
    /\ UNCHANGED <<calls, failures, last, rtVars, world, script, pending, repos, github,
                   warnings, disturbed>>

\* The subprocess exits nonzero (update_index raised at `stage`):
\* CalledProcessError, caught at line 375.
InvokeFails ==
    /\ pc = "invoke"
    /\ \E stage \in FailStages :
         LET repo == Head(queue)
         IN /\ stage = "mkdir" => repo.package_name \notin dirs
            /\ SetIndex(update_index_fails(CurrentIndex, repo.package_name,
                                           repo.version, repo.commit_hash,
                                           github.github_user,
                                           github.github_repo, stage))
            /\ invoked' = Append(invoked, Invocation(repo, github, "failed"))
    /\ queue' = AfterFailedUpdate(queue)
    /\ pc' = PcAfter(queue')
    /\ disturbed' = TRUE
    /\ UNCHANGED <<calls, failures, last, rtVars, world, script, pending, repos, github,
                   warnings>>

\* The subprocess never returns; subprocess.run at line 356 has no timeout.
InvokeHangs ==
    /\ pc = "invoke"
    /\ pc' = "hung_update"
    /\ UNCHANGED <<writerVars, rtVars, world, script, pending, repos, queue,
                   github, invoked, warnings, disturbed>>

RegenNext ==
    \/ Start
    \/ ScanItem
    \/ ScanCommitHangs
    \/ ScanDone
    \/ RemoteLookup
    \/ RemoteLookupHangs
    \/ RemoteTimeout
    \/ InvokeOk
    \/ InvokeFails
    \/ InvokeHangs

RegenSpec == RegenInit /\ [][RegenNext]_vars

Finished == pc \in { "done", "exit0", "exit1" }

----------------------------------------------------------------------------
(* RoundTripSpec: render a record list, parse the page back *)

RecordUniverse ==
    { VersionRecord(v, c, u, r) :
        v \in Versions, c \in Commits, u \in Users, r \in Packages }

DistinctVersions(recs) ==
    \A i, j \in 1..Len(recs) : i /= j => recs[i].version /= recs[j].version

RecordLists ==
    { recs \in UNION { [ 1..n -> RecordUniverse ] : n \in 0..MaxRecords } :
        DistinctVersions(recs) }

RoundTripInit ==
    /\ WriterIdle
    /\ RegenIdle
    /\ rtPhase = "input"
    /\ rtPackage \in Packages
    /\ rtRecords \in RecordLists
    /\ rtPage = NoFile
    /\ rtLoaded = <<>>

Render ==
    /\ rtPhase = "input"
    /\ rtPage' = File(create_package_index_html(rtPackage, rtRecords))
    /\ rtPhase' = "rendered"
    /\ UNCHANGED <<writerVars, regenVars, rtPackage, rtRecords, rtLoaded>>

Load ==
    /\ rtPhase = "rendered"
    /\ rtLoaded' = load_existing_versions(rtPage)
    /\ rtPhase' = "loaded"
    /\ UNCHANGED <<writerVars, regenVars, rtPackage, rtRecords, rtPage>>

RoundTripNext == Render \/ Load

RoundTripSpec == RoundTripInit /\ [][RoundTripNext]_vars

----------------------------------------------------------------------------
(* Reading pages and runs *)

Range(seq) == { seq[i] : i \in 1..Len(seq) }

\* The record set load_existing_versions parses back from a page.
RecordSet(page) == Range(load_existing_versions(page))

\* The link text the page format gives version v of package p.
LinkText(p, v) == p \o DASH \o v

\* The package names the root page links to.
RootListing == IF root.exists THEN { a.text : a \in Range(root.anchors) } ELSE {}

PackageDirs == dirs \ { GIT_DIR }

\* The run of the loop of regenerate_index as a function of the list the scan
\* built, when every external call answers in time and every update exits 0.
RECURSIVE RunUpdates(_, _)
RunUpdates(idx, q) ==
    IF q = <<>> THEN idx
    ELSE LET repo == Head(q)
             info == GithubInfo(repo, FALSE)
         IN RunUpdates(update_index(idx, repo.package_name, repo.version,
                                    repo.commit_hash, info.github_user,
                                    info.github_repo),
                       Tail(q))

RegenResult(rs) == RunUpdates(EmptyIndex, SortByPackageName(rs))

FoundItems == { item \in world : ScanResult(item) = "found" }

\* Every order in which iterdir() can yield the repositories of a set.
Enumerations(S) ==
    { e \in [ 1..Cardinality(S) -> S ] :
        \A i, j \in 1..Cardinality(S) : i /= j => e[i] /= e[j] }

----------------------------------------------------------------------------
(* Claims *)

\* C1 (RoundTripSpec): rendering a list of records with pairwise distinct,
\* '-'-free versions and parsing the page back yields the same set of
\* (version, commit, forge_user, forge_repo) records.
C1_RoundTrip ==
    rtPhase = "loaded" => Range(rtLoaded) = Range(rtRecords)

\* C2 (Spec): an update_index call that repeats the tuple of the call that
\* completed just before it leaves the record set of the package page as
\* that first call left it.
C2_Idempotent ==
    [][ (last.outcome = "ok" /\ last' = last /\ calls' = calls + 1)
          => RecordSet(pages'[last.package]) = RecordSet(pages[last.package])
      ]_vars

\* C3 (Spec): an update_index call for a version the package page already
\* links, with a different commit, leaves the page with the new tuple for
\* that version, and with every other link of the page as it was.
C3_Replacement ==
    [][ LET p   == last'.package
            new == Anchor(p, VersionRecord(last'.version, last'.commit_hash,
                                           last'.github_user, last'.github_repo))
            old == Range(pages[p].anchors)
            now == Range(pages'[p].anchors)
        IN (/\ calls' = calls + 1
            /\ last'.outcome = "ok"
            /\ \E a \in old : a.text = new.text /\ a /= new)
           => /\ new \in now
              /\ \A a \in now : a.text = new.text => a = new
              /\ \A a \in old : a.text /= new.text => a \in now
      ]_vars

\* C4 (Spec): after an update_index call that completed, the root page holds
\* exactly one link per package directory under simple/ (.git left out), and
\* no other link.
C4_RootComplete ==
    last.outcome = "ok" =>
        /\ root.exists
        /\ RootListing = PackageDirs
        /\ Len(root.anchors) = Cardinality(PackageDirs)
        /\ \A a \in Range(root.anchors) : a.href = a.text \o SLASH

C4_Witness ==
    /\ last.outcome = "ok"
    /\ GIT_DIR \in dirs
    /\ Packages \subseteq dirs
    /\ \E p \in Packages : ~pages[p].exists

Position(page, text) ==
    CHOOSE i \in 1..Len(page.anchors) : page.anchors[i].text = text

Links(p, v) == LinkText(p, v) \in { a.text : a \in Range(pages[p].anchors) }

C6_LexOrder ==
    /\ \A p \in Packages :
         \A i, j \in 1..Len(pages[p].anchors) :
            i < j => StrLeq(Drop(pages[p].anchors[i].text, Len(p) + 1),
                            Drop(pages[p].anchors[j].text, Len(p) + 1))
    /\ (Links(Eprint, V0010) /\ Links(Eprint, V002))
         => Position(pages[Eprint], LinkText(Eprint, V0010))
              < Position(pages[Eprint], LinkText(Eprint, V002))
    /\ (Links(Eprint, V001) /\ Links(Eprint, V002))
         => Position(pages[Eprint], LinkText(Eprint, V001))
              < Position(pages[Eprint], LinkText(Eprint, V002))

\* 0.0.10 arrived after 0.0.2 and is listed before it.
C6_Witness ==
    /\ last.outcome = "ok"
    /\ last.package = Eprint
    /\ last.version = V0010
    /\ Links(Eprint, V0010)
    /\ Links(Eprint, V002)

\* C7 (RegenSpec): when a run completes with every external call answering
\* in time and every update exiting 0, the index is what the run produces
\* for every other order in which the repositories could have been
\* enumerated.
C7_Deterministic ==
    (pc = "done" /\ ~disturbed) =>
        \A e \in Enumerations(FoundItems) :
            RegenResult([ k \in 1..Len(e) |-> Repo(e[k]) ]) = CurrentIndex

\* C8 (RegenSpec): a run of regenerate_index is never stuck before it
\* completes: whichever external process hangs, a timeout lets the run take
\* its next step.
C8_RunCompletes == Finished \/ ENABLED RegenNext

\* C9 (RegenSpec): the scan finds exactly the repositories that pass the
\* checks, whatever it skipped; the Index Writer is invoked once for each of
\* them, in package-name order, and an invocation that failed does not stop
\* the ones after it; skipped repositories are reported, and a repository
\* without a remote is invoked with the default user and its directory name.
InUpdatePhase == pc \in { "remote", "hung_remote", "invoke", "hung_update", "done" }

Paths(seq) == [ i \in 1..Len(seq) |-> seq[i].repo_path ]

C9_FailureIsolation ==
    /\ InUpdatePhase =>
         /\ Range(Paths(repos)) = { item.name : item \in FoundItems }
         /\ Len(repos) = Cardinality(FoundItems)
         /\ Paths(invoked) \o Paths(queue) = Paths(SortByPackageName(repos))
         /\ \A i, j \in 1..Len(invoked) :
               i < j => StrLeq(invoked[i].package_name, invoked[j].package_name)
         /\ \A i \in 1..Len(invoked) :
               \A item \in FoundItems :
                  (item.name = invoked[i].repo_path /\ item.remote_url = None)
                     => /\ invoked[i].github_user = GITHUB_USER
                        /\ invoked[i].github_repo = item.name
         /\ \A item \in world :
               (/\ item.is_dir
                /\ item.marker
                /\ Head(item.name) /= "."
                /\ item.name /= PIP_INDEX
                /\ item \notin FoundItems) => item.name \in warnings
    /\ pc = "done" =>
         /\ Len(invoked) = Cardinality(FoundItems)
         /\ Range(Paths(invoked)) = { item.name : item \in FoundItems }

\* A completed run in which a failed invocation was followed by a successful
\* one, after a scan that skipped repositories.
C9_Witness ==
    /\ pc = "done"
    /\ warnings /= {}
    /\ \E i, j \in 1..Len(invoked) :
          i < j /\ invoked[i].outcome = "failed" /\ invoked[j].outcome = "ok"

\* C10 (Spec): in every state between update_index calls, the state a failed
\* call leaves included, the root page lists exactly the package directories
\* under simple/.
C10_RootNeverStale == RootListing = PackageDirs

====
